---- MODULE Spec2Model ----
(***************************************************************************)
(* A model of the spreadsheet-to-SQLite reconciler of src/excelTosql.py:   *)
(* load_sheet, ensure_schema, get_or_create_dim, upsert_product,           *)
(* sync_tags, sync_excel_to_sqlite and watch_and_sync.                     *)
(*                                                                         *)
(* Conventions.                                                            *)
(*  - A Python string that the code trims, lowercases or splits is a       *)
(*    sequence of one-character strings, so that strip(), lower() and      *)
(*    split() are computed and not assumed.                                *)
(*  - A spreadsheet cell is a record [k, n, s]: k = "nan" (empty cell),    *)
(*    k = "num" (a number, n) or k = "str" (a text, s).  Numbers are       *)
(*    integers; a text cell is never a numeral, so int() and float() of a  *)
(*    text cell raise ValueError and of an empty cell (None) TypeError.    *)
(*  - SQL NULL is 0 in the integer key columns (AUTOINCREMENT ids start    *)
(*    at 1) and the cell NaN in the text columns.                          *)
(*  - The columns Gender, Level, Color, Size and Season are written        *)
(*    exactly like Model (get(col), stored as is); LengthCm, WeightKg and  *)
(*    ReleaseYear are optional numbers without a constraint; Barcode is    *)
(*    written exactly like SKU.  The model keeps Model and SKU as their    *)
(*    representatives.                                                     *)
(*  - The store is the committed content of the database file.  A pass     *)
(*    that raises closes its connection (finally: conn.close()), which     *)
(*    discards whatever was executed after the last conn.commit().         *)
(***************************************************************************)
EXTENDS Integers, Sequences, FiniteSets, TLC

VARIABLES
    db,          \* the committed content of the SQLite file
    now,         \* the value CURRENT_TIMESTAMP yields
    pc,          \* where sync_excel_to_sqlite is: "idle", "rows", "done", "failed"
    src,         \* what load_sheet was given: the extension of the path and the header row
    df,          \* the DataFrame load_sheet returned: [columns, rows]
    purge,       \* the purge_missing argument of the pass
    i,           \* 1-based position of the next row of df.iterrows()
    caches,      \* cat_cache, brand_cache, mat_cache: sets of <<key, id>>
    seen,        \* seen_product_ids
    err,         \* the exception the pass raised: "none", "SystemExit", "Exception"
    pre,         \* the store as it was when the pass connected
    passes,      \* number of passes started so far
    wpc,         \* where watch_and_sync is: "off" (not called), "poll", "syncing",
                 \* "stopped" (it returned), "exited" (SystemExit left it),
                 \* "interrupted" (KeyboardInterrupt left it)
    purge_missing, \* watch_and_sync's purge_missing argument
    last_mtime,  \* watch_and_sync's last_mtime (0 is None)
    mtime,       \* watch_and_sync's mtime local (0 before the first getmtime)
    file,        \* the source file: [exists, mtime, sheet]
    ticks,       \* the poll ticks so far: what getmtime gave (0: no file) and
                 \* whether the tick called sync_excel_to_sqlite
    workers      \* the calls of get_or_create_dim under way on connections of
                 \* their own: for each its table, name, position and result

vars == <<db, now, pc, src, df, purge, i, caches, seen, err, pre, passes,
          wpc, purge_missing, last_mtime, mtime, file, ticks, workers>>

passVars == <<pc, src, df, purge, i, caches, seen, err, pre>>
watchVars == <<wpc, purge_missing, last_mtime, mtime, file, ticks>>

----------------------------------------------------------------------------
(* Bounds of the model. *)

MaxPasses == 2
MaxRows == 2
MaxMtime == 2
MaxTicks == 3

----------------------------------------------------------------------------
(* Python strings as sequences of characters. *)

Whitespace == {" "}

RECURSIVE lstrip(_)
lstrip(s) == IF s # <<>> /\ Head(s) \in Whitespace THEN lstrip(Tail(s)) ELSE s

RECURSIVE rstrip(_)
rstrip(s) ==
    IF s # <<>> /\ s[Len(s)] \in Whitespace
    THEN rstrip(SubSeq(s, 1, Len(s) - 1))
    ELSE s

strip(s) == rstrip(lstrip(s))

lowerChar(c) ==
    CASE c = "A" -> "a" [] c = "C" -> "c" [] c = "E" -> "e" [] c = "L" -> "l"
      [] c = "N" -> "n" [] c = "O" -> "o" [] c = "R" -> "r" [] c = "S" -> "s"
      [] c = "T" -> "t" [] c = "U" -> "u" [] c = "V" -> "v" [] c = "X" -> "x"
      [] c = "Y" -> "y" [] OTHER -> c

RECURSIVE lower(_)
lower(s) == IF s = <<>> THEN <<>> ELSE <<lowerChar(Head(s))>> \o lower(Tail(s))

contains(s, c) == \E k \in 1..Len(s) : s[k] = c

\* str.split(d): the pieces between the occurrences of d, empty pieces kept
RECURSIVE split(_, _)
split(s, d) ==
    IF contains(s, d)
    THEN LET k == CHOOSE k \in 1..Len(s) : s[k] = d /\ \A j \in 1..(k - 1) : s[j] # d
         IN <<SubSeq(s, 1, k - 1)>> \o split(SubSeq(s, k + 1, Len(s)), d)
    ELSE <<s>>

\* str(n) of a small non-negative integer
Digits == <<"0", "1", "2", "3", "4", "5", "6", "7", "8", "9">>

RECURSIVE intStr(_)
intStr(n) == IF n < 10 THEN <<Digits[n + 1]>> ELSE intStr(n \div 10) \o <<Digits[(n % 10) + 1]>>

Range(f) == {f[k] : k \in DOMAIN f}

----------------------------------------------------------------------------
(* Cells. *)

NaN == [k |-> "nan", n |-> 0, s |-> <<>>]
Num(x) == [k |-> "num", n |-> x, s |-> <<>>]
Str(x) == [k |-> "str", n |-> 0, s |-> x]

notna(c) == c.k # "nan"

\* int(c) and float(c) raise on None and on a text that is no numeral
numeric(c) == c.k = "num"

----------------------------------------------------------------------------
(* Column names. *)

Hdr == [
    Id |-> <<"I", "d">>,
    ProductName |-> <<"P", "r", "o", "d", "u", "c", "t", "N", "a", "m", "e">>,
    Price |-> <<"P", "r", "i", "c", "e">>,
    Stock |-> <<"S", "t", "o", "c", "k">>,
    Category |-> <<"C", "a", "t", "e", "g", "o", "r", "y">>,
    Brand |-> <<"B", "r", "a", "n", "d">>,
    Material |-> <<"M", "a", "t", "e", "r", "i", "a", "l">>,
    Model |-> <<"M", "o", "d", "e", "l">>,
    DiscountPercent |-> <<"D", "i", "s", "c", "o", "u", "n", "t", "P", "e", "r", "c", "e", "n", "t">>,
    WarrantyMonths |-> <<"W", "a", "r", "r", "a", "n", "t", "y", "M", "o", "n", "t", "h", "s">>,
    SKU |-> <<"S", "K", "U">>,
    Active |-> <<"A", "c", "t", "i", "v", "e">>,
    Rating |-> <<"R", "a", "t", "i", "n", "g">>,
    TotalReviews |-> <<"T", "o", "t", "a", "l", "R", "e", "v", "i", "e", "w", "s">>,
    Tags |-> <<"T", "a", "g", "s">>
]

REQUIRED_COLS == {Hdr.Id, Hdr.ProductName, Hdr.Price, Hdr.Stock}

AllCols == Range(Hdr)

\* os.path.splitext(path.lower()) of the paths the model uses
ExcelExts == {<<".", "x", "l", "s", "x">>, <<".", "x", "l", "s">>, <<".", "x", "l", "s", "m">>}
CsvExt == <<".", "c", "s", "v">>

----------------------------------------------------------------------------
(* The store. *)

NULL == 0

Put(f, key, v) == [x \in DOMAIN f \cup {key} |-> IF x = key THEN v ELSE f[x]]

\* the database file before any pass has connected to it
NoDb == [
    schema |-> FALSE,
    categories |-> {}, brands |-> {}, materials |-> {}, tags |-> {},
    seq |-> [categories |-> 0, brands |-> 0, materials |-> 0, tags |-> 0],
    products |-> <<>>, inventory |-> <<>>, product_ratings |-> <<>>,
    product_tags |-> {}
]

\* CREATE TABLE IF NOT EXISTS ...; CREATE INDEX IF NOT EXISTS ...; commit
ensure_schema(d) == [d EXCEPT !.schema = TRUE]

\* INSERT OR REPLACE INTO t (name): a row of that name is deleted and the name
\* inserted under the next id
InsertNameIgnore_Replace(d, t, name) ==
    LET id == d.seq[t] + 1
    IN [d EXCEPT ![t] = {r \in @ : r.name # name} \cup {[id |-> id, name |-> name]},
                 !.seq[t] = id]

\* INSERT INTO t (name) VALUES (name), without the ON CONFLICT clause: the row
\* is added whether or not the name is there
InsertNameIgnore_NoConflictClause(d, t, name) ==
    LET id == d.seq[t] + 1
    IN [d EXCEPT ![t] = @ \cup {[id |-> id, name |-> name]}, !.seq[t] = id]

\* INSERT INTO t (name) VALUES (name) ON CONFLICT(name) DO NOTHING on a table
\* with id INTEGER PRIMARY KEY AUTOINCREMENT and name UNIQUE.  SQLite takes the
\* next rowid from sqlite_sequence before it finds the conflict and keeps the
\* advanced sequence, so an ignored insert leaves a gap in the ids.
InsertNameIgnore(d, t, name) ==
    LET id == d.seq[t] + 1
    IN IF \E r \in d[t] : r.name = name
       THEN [d EXCEPT !.seq[t] = id]
       ELSE [d EXCEPT ![t] = @ \cup {[id |-> id, name |-> name]}, !.seq[t] = id]

\* SELECT id FROM t WHERE name = ?; fetchone(); row[0] if row else None
SelectId(d, t, name) ==
    IF \E r \in d[t] : r.name = name
    THEN (CHOOSE r \in d[t] : r.name = name).id
    ELSE NULL

\* str(x) of a cell that is not empty
str(c) == IF c.k = "str" THEN c.s ELSE intStr(c.n)

\* get_or_create_dim without lines 124-125: str(name).strip() is inserted and
\* read back whatever it is, "None" for None
get_or_create_dim_NoBlankCheck(d, t, name) ==
    LET nm == IF notna(name) THEN strip(str(name)) ELSE <<"N", "o", "n", "e">>
        d1 == InsertNameIgnore(d, t, nm)
    IN [db |-> d1, id |-> SelectId(d1, t, nm)]

\* get_or_create_dim(conn, table, name): name is a cell, NaN for None
get_or_create_dim(d, t, name) ==
    IF ~notna(name) \/ str(name) = <<>> \/ strip(str(name)) = <<>>
    THEN [db |-> d, id |-> NULL]
    ELSE LET nm == strip(str(name))
             d1 == InsertNameIgnore(d, t, nm)
         IN [db |-> d1, id |-> SelectId(d1, t, nm)]

----------------------------------------------------------------------------
(* upsert_product *)

\* the closure get(col, default=None) of upsert_product, None as NaN
get(cols, row, c) == IF Hdr[c] \in cols /\ notna(row[c]) THEN row[c] ELSE NaN

\* int(get(col, dflt)) if pd.notna(get(col, dflt)) else dflt
intOr(c, dflt) == IF notna(c) THEN c.n ELSE dflt

TruthyTokens == {<<"1">>, <<"t", "r", "u", "e">>, <<"y", "e", "s">>, <<"y">>}

\* lines 159-165
is_active_of(c) ==
    IF c.k = "str"
    THEN (IF lower(strip(c.s)) \in TruthyTokens THEN 1 ELSE 0)
    ELSE IF ~notna(c) THEN 1
    ELSE (IF c.n # 0 THEN 1 ELSE 0)

\* the conversions of lines 140-165 that raise TypeError or ValueError
ProductConversionsOk(cols, row) ==
    /\ numeric(get(cols, row, "Id"))
    /\ numeric(get(cols, row, "Price"))
    /\ get(cols, row, "DiscountPercent").k # "str"
    /\ get(cols, row, "WarrantyMonths").k # "str"

\* the values bound to the INSERT of lines 167-198
ProductValues(cols, row, fk) ==
    LET pid == get(cols, row, "Id").n
        nm == get(cols, row, "ProductName")
        sku == get(cols, row, "SKU")
    IN [ id |-> pid,
         name |-> IF notna(nm) THEN str(nm)
                  ELSE <<"P", "r", "o", "d", "u", "c", "t", " ">> \o intStr(pid),
         category_id |-> fk.category_id,
         brand_id |-> fk.brand_id,
         material_id |-> fk.material_id,
         model |-> get(cols, row, "Model"),
         price |-> get(cols, row, "Price").n,
         discount_percent |-> intOr(get(cols, row, "DiscountPercent"), 0),
         warranty_months |-> intOr(get(cols, row, "WarrantyMonths"), 12),
         sku |-> IF notna(sku) THEN Str(str(sku)) ELSE NaN,
         is_active |-> is_active_of(get(cols, row, "Active")) ]

\* the same constraints with CHECK(price >= 0)
ProductConstraintsOk_ZeroPrice(d, v) ==
    /\ v.category_id # NULL
    /\ v.brand_id # NULL
    /\ v.price >= 0
    /\ v.discount_percent >= 0 /\ v.discount_percent <= 100
    /\ notna(v.sku) =>
          \A q \in DOMAIN d.products : q # v.id => d.products[q].sku # v.sku

\* the same constraints with category_id INTEGER and brand_id INTEGER, without
\* NOT NULL
ProductConstraintsOk_NullableDims(d, v) ==
    /\ v.price > 0
    /\ v.discount_percent >= 0 /\ v.discount_percent <= 100
    /\ notna(v.sku) =>
          \A q \in DOMAIN d.products : q # v.id => d.products[q].sku # v.sku
    /\ v.category_id # NULL => \E r \in d.categories : r.id = v.category_id
    /\ v.brand_id # NULL => \E r \in d.brands : r.id = v.brand_id
    /\ v.material_id # NULL => \E r \in d.materials : r.id = v.material_id

\* the constraints of CREATE TABLE products (lines 62-88) on a row to write
ProductConstraintsOk(d, v) ==
    /\ v.category_id # NULL
    /\ v.brand_id # NULL
    /\ v.price > 0
    /\ v.discount_percent >= 0 /\ v.discount_percent <= 100
    /\ notna(v.sku) =>
          \A q \in DOMAIN d.products : q # v.id => d.products[q].sku # v.sku
    /\ \E r \in d.categories : r.id = v.category_id
    /\ \E r \in d.brands : r.id = v.brand_id
    /\ v.material_id # NULL => \E r \in d.materials : r.id = v.material_id

\* the upsert without is_active=excluded.is_active in its DO UPDATE SET
UpsertProductRow_KeepActive(d, v, t) ==
    [d EXCEPT !.products = Put(@, v.id,
        [ name |-> v.name, category_id |-> v.category_id, brand_id |-> v.brand_id,
          material_id |-> v.material_id, model |-> v.model, price |-> v.price,
          discount_percent |-> v.discount_percent,
          warranty_months |-> v.warranty_months, sku |-> v.sku,
          is_active |-> IF v.id \in DOMAIN d.products
                        THEN d.products[v.id].is_active ELSE v.is_active,
          created_at |-> IF v.id \in DOMAIN d.products
                         THEN d.products[v.id].created_at ELSE t,
          updated_at |-> t ])]

\* INSERT OR REPLACE INTO products: the row is deleted and inserted anew, so
\* created_at takes its default again
UpsertProductRow_Replace(d, v, t) ==
    [d EXCEPT !.products = Put(@, v.id,
        [ name |-> v.name, category_id |-> v.category_id, brand_id |-> v.brand_id,
          material_id |-> v.material_id, model |-> v.model, price |-> v.price,
          discount_percent |-> v.discount_percent,
          warranty_months |-> v.warranty_months, sku |-> v.sku,
          is_active |-> v.is_active, created_at |-> t, updated_at |-> t ])]

\* ... ON CONFLICT(id) DO UPDATE SET model=COALESCE(excluded.model, model), and
\* the same for material_id and sku: a null of the row keeps the stored value
UpsertProductRow_Coalesce(d, v, t) ==
    LET old == IF v.id \in DOMAIN d.products THEN d.products[v.id]
               ELSE [material_id |-> NULL, model |-> NaN, sku |-> NaN, created_at |-> t]
    IN [d EXCEPT !.products = Put(@, v.id,
        [ name |-> v.name, category_id |-> v.category_id, brand_id |-> v.brand_id,
          material_id |-> IF v.material_id = NULL THEN old.material_id ELSE v.material_id,
          model |-> IF v.model = NaN THEN old.model ELSE v.model,
          price |-> v.price, discount_percent |-> v.discount_percent,
          warranty_months |-> v.warranty_months,
          sku |-> IF v.sku = NaN THEN old.sku ELSE v.sku,
          is_active |-> v.is_active, created_at |-> old.created_at, updated_at |-> t ])]

\* INSERT INTO products ... ON CONFLICT(id) DO UPDATE SET ..., updated_at=CURRENT_TIMESTAMP
UpsertProductRow(d, v, t) ==
    LET fields == [ name |-> v.name, category_id |-> v.category_id,
                    brand_id |-> v.brand_id, material_id |-> v.material_id,
                    model |-> v.model, price |-> v.price,
                    discount_percent |-> v.discount_percent,
                    warranty_months |-> v.warranty_months, sku |-> v.sku,
                    is_active |-> v.is_active,
                    created_at |-> IF v.id \in DOMAIN d.products
                                   THEN d.products[v.id].created_at ELSE t,
                    updated_at |-> t ]
    IN [d EXCEPT !.products = Put(@, v.id, fields)]

\* INSERT INTO inventory ... ON CONFLICT(product_id) DO UPDATE (lines 202-213)
UpsertInventory(d, pid, stock, t) ==
    [d EXCEPT !.inventory = Put(@, pid, [ stock_quantity |-> stock,
                                           reserved_quantity |-> 0,
                                           reorder_point |-> 10,
                                           last_updated |-> t ])]

\* INSERT INTO product_ratings ... ON CONFLICT(product_id) DO UPDATE (lines 216-225)
UpsertRating(d, pid, avg, total, t) ==
    [d EXCEPT !.product_ratings = Put(@, pid, [ average_rating |-> avg,
                                                 total_reviews |-> total,
                                                 last_updated |-> t ])]

\* CHECK(average_rating >= 0.0 AND average_rating <= 10.0)
RatingConstraintOk_UpToTen(avg) == avg >= 0 /\ avg <= 10

\* CHECK(average_rating >= 0.0 AND average_rating <= 5.0)
RatingConstraintOk(avg) == avg >= 0 /\ avg <= 5

\* upsert_product(conn, row, fk): the committed store it leaves and whether it returned
upsert_product(d, cols, row, fk, t) ==
    IF ~ProductConversionsOk(cols, row) THEN [db |-> d, ok |-> FALSE]
    ELSE
    LET v == ProductValues(cols, row, fk)
    IN IF ~ProductConstraintsOk(d, v) THEN [db |-> d, ok |-> FALSE]
       ELSE
       LET d1 == UpsertProductRow(d, v, t)      \* conn.commit() of line 199
           stock == get(cols, row, "Stock")
           rating == get(cols, row, "Rating")
           total == get(cols, row, "TotalReviews")
       IN IF stock.k = "str" \/ rating.k = "str" \/ total.k = "str"
             \/ ~RatingConstraintOk(intOr(rating, 0))
          THEN [db |-> d1, ok |-> FALSE]
          ELSE [db |-> UpsertRating(UpsertInventory(d1, v.id, intOr(stock, 0), t),
                                    v.id, intOr(rating, 0), intOr(total, 0), t),
                ok |-> TRUE]

----------------------------------------------------------------------------
(* sync_tags *)

RECURSIVE stripAll(_)
stripAll(parts) ==
    IF parts = <<>> THEN <<>> ELSE <<strip(Head(parts))>> \o stripAll(Tail(parts))

RECURSIVE nonEmpty(_)
nonEmpty(parts) ==
    IF parts = <<>> THEN <<>>
    ELSE IF Head(parts) # <<>> THEN <<Head(parts)>> \o nonEmpty(Tail(parts))
    ELSE nonEmpty(Tail(parts))

\* lines 230-236 without the test for ";": the value is split on "," always
ParseTags_CommaOnly(tags_value) ==
    IF tags_value.k = "str" /\ tags_value.s # <<>>
    THEN nonEmpty(stripAll(split(tags_value.s, ",")))
    ELSE <<>>

\* lines 230-236: the list tags, in order, duplicates kept
ParseTags(tags_value) ==
    IF tags_value.k = "str" /\ tags_value.s # <<>>
    THEN IF contains(tags_value.s, ";")
         THEN nonEmpty(stripAll(split(tags_value.s, ";")))
         ELSE nonEmpty(stripAll(split(tags_value.s, ",")))
    ELSE <<>>

\* lines 239-245: the loop over tags; the store and the list tag_ids it leaves
RECURSIVE InsertTags(_, _, _)
InsertTags(d, tags, tag_ids) ==
    IF tags = <<>> THEN [db |-> d, tag_ids |-> tag_ids]
    ELSE LET d1 == InsertNameIgnore(d, "tags", Head(tags))
             r == SelectId(d1, "tags", Head(tags))
         IN InsertTags(d1, Tail(tags), IF r # NULL THEN Append(tag_ids, r) ELSE tag_ids)

\* the links ensured, the DELETE of lines 250-256 left out
ReconcileLinks_AppendOnly(links, product_id, tag_ids) ==
    links \cup {<<product_id, tid>> : tid \in Range(tag_ids)}

\* the DELETE of lines 250-256 without "product_id = ?": the links of every
\* product to tags outside tag_ids go
ReconcileLinks_AllProducts(links, product_id, tag_ids) ==
    LET ids == Range(tag_ids)
        ensured == links \cup {<<product_id, tid>> : tid \in ids}
    IN {l \in ensured : l[2] \in ids}

\* lines 247-256: INSERT OR IGNORE the links, then DELETE what is not in tag_ids
ReconcileLinks(links, product_id, tag_ids) ==
    LET ids == Range(tag_ids)
        ensured == links \cup {<<product_id, tid>> : tid \in ids}
    IN IF tag_ids # <<>>
       THEN {l \in ensured : ~(l[1] = product_id /\ l[2] \notin ids)}
       ELSE {l \in ensured : l[1] # product_id}

\* sync_tags(conn, product_id, tags_value); one commit at its end
sync_tags(d, product_id, tags_value) ==
    LET ins == InsertTags(d, ParseTags(tags_value), <<>>)
    IN [ins.db EXCEPT !.product_tags = ReconcileLinks(@, product_id, ins.tag_ids)]

----------------------------------------------------------------------------
(* One iteration of the loop of sync_excel_to_sqlite (lines 272-298). *)

NoCaches == [cat |-> <<>>, brand |-> <<>>, mat |-> <<>>]

\* lines 274-276: str(r[col]).strip() if col in r and pd.notna(r[col]) else None
DimName(cols, row, c) ==
    IF Hdr[c] \in cols /\ notna(row[c]) THEN Str(strip(str(row[c]))) ELSE NaN

\* lines 278-283: one "if name not in cache: cache[name] = ..." statement
ResolveDim(d, cache, t, name) ==
    IF name \in DOMAIN cache THEN [db |-> d, cache |-> cache]
    ELSE IF notna(name) /\ name.s # <<>>
    THEN LET g == get_or_create_dim(d, t, name)
         IN [db |-> g.db, cache |-> Put(cache, name, g.id)]
    ELSE [db |-> d, cache |-> Put(cache, name, NULL)]

\* the loop body: the committed store, the caches and seen_product_ids it
\* leaves, and whether it completed without raising
ProcessRowStep(d, cols, row, cch, sn, t) ==
    LET cat_name == DimName(cols, row, "Category")
        brand_name == DimName(cols, row, "Brand")
        mat_name == DimName(cols, row, "Material")
        c1 == ResolveDim(d, cch.cat, "categories", cat_name)
        c2 == ResolveDim(c1.db, cch.brand, "brands", brand_name)
        c3 == ResolveDim(c2.db, cch.mat, "materials", mat_name)
        cch1 == [cat |-> c1.cache, brand |-> c2.cache, mat |-> c3.cache]
        fk == [ category_id |-> c1.cache[cat_name],
                brand_id |-> c2.cache[brand_name],
                material_id |-> c3.cache[mat_name] ]
        u == upsert_product(c3.db, cols, row, fk, t)
    IN IF ~u.ok THEN [db |-> u.db, caches |-> cch1, seen |-> sn, ok |-> FALSE]
       ELSE LET pid == row.Id.n
                tags_val == IF Hdr.Tags \in cols THEN row.Tags ELSE NaN
            IN [ db |-> sync_tags(u.db, pid, tags_val), caches |-> cch1,
                 seen |-> sn \cup {pid}, ok |-> TRUE ]

\* the stores upsert_product commits on its way, at line 199 and at line 226
upsert_product_commits(d, cols, row, fk, t) ==
    IF ~ProductConversionsOk(cols, row) THEN {}
    ELSE LET v == ProductValues(cols, row, fk)
             u == upsert_product(d, cols, row, fk, t)
         IN IF ~ProductConstraintsOk(d, v) THEN {}
            ELSE {UpsertProductRow(d, v, t)} \cup (IF u.ok THEN {u.db} ELSE {})

\* every store the loop body has committed at some point of one iteration: the
\* store it began with, those after each get_or_create_dim, after lines 199 and
\* 226 of upsert_product, and after sync_tags
RowCommitPoints(d, cols, row, cch, sn, t) ==
    LET cat_name == DimName(cols, row, "Category")
        brand_name == DimName(cols, row, "Brand")
        mat_name == DimName(cols, row, "Material")
        c1 == ResolveDim(d, cch.cat, "categories", cat_name)
        c2 == ResolveDim(c1.db, cch.brand, "brands", brand_name)
        c3 == ResolveDim(c2.db, cch.mat, "materials", mat_name)
        fk == [ category_id |-> c1.cache[cat_name],
                brand_id |-> c2.cache[brand_name],
                material_id |-> c3.cache[mat_name] ]
    IN {d, c1.db, c2.db, c3.db}
       \cup upsert_product_commits(c3.db, cols, row, fk, t)
       \cup {ProcessRowStep(d, cols, row, cch, sn, t).db}

\* DELETE FROM products WHERE id IN (missing_ids) in the place of the UPDATE
PurgeMissing_HardDelete(d, pm, sn, t) ==
    IF pm THEN [d EXCEPT !.products = [p \in DOMAIN @ \cap sn |-> @[p]]] ELSE d

\* the purge step without "if purge_missing:"
PurgeMissing_IgnoreFlag(d, pm, sn, t) ==
    [d EXCEPT !.products =
        [p \in DOMAIN @ |->
            IF p \in sn THEN @[p] ELSE [@[p] EXCEPT !.is_active = 0, !.updated_at = t]]]

\* the purge step with a DELETE FROM product_tags and a DELETE FROM inventory
\* for the missing ids after its UPDATE
PurgeMissing_DropChildren(d, pm, sn, t) ==
    LET missing_ids == DOMAIN d.products \ sn
    IN IF pm /\ missing_ids # {}
       THEN [d EXCEPT !.products =
                        [p \in DOMAIN @ |->
                            IF p \in missing_ids
                            THEN [@[p] EXCEPT !.is_active = 0, !.updated_at = t]
                            ELSE @[p]],
                      !.product_tags = {l \in @ : l[1] \notin missing_ids},
                      !.inventory = [p \in DOMAIN @ \ missing_ids |-> @[p]]]
       ELSE d

\* lines 300-309
PurgeMissing(d, pm, sn, t) ==
    LET existing_ids == DOMAIN d.products
        missing_ids == existing_ids \ sn
    IN IF pm /\ missing_ids # {}
       THEN [d EXCEPT !.products =
                [p \in DOMAIN @ |->
                    IF p \in missing_ids
                    THEN [@[p] EXCEPT !.is_active = 0, !.updated_at = t]
                    ELSE @[p]]]
       ELSE d

\* load_sheet (lines 18-34): the extension of the lowercased path, the
\* stripped headers, the required columns
SupportedExt(ext) == lower(ext) \in ExcelExts \/ lower(ext) = CsvExt

NormalizedColumns(sheet) == {strip(c) : c \in sheet.columns}

\* line 31: missing = [c for c in REQUIRED_COLS if c not in df.columns]
MissingCols(sheet) == {c \in REQUIRED_COLS : c \notin NormalizedColumns(sheet)}

\* load_sheet without the check of lines 31-33
LoadOk_NoColumnCheck(sheet) == SupportedExt(sheet.ext)

LoadOk(sheet) ==
    /\ SupportedExt(sheet.ext)
    /\ MissingCols(sheet) = {}

load_sheet(sheet) == [columns |-> NormalizedColumns(sheet), rows |-> sheet.rows]

\* sync_excel_to_sqlite as a function: the store a whole pass over a loaded
\* sheet leaves and whether it returned normally
RECURSIVE RunRows(_, _, _, _, _, _)
RunRows(d, cols, rows, cch, sn, t) ==
    IF rows = <<>> THEN [db |-> d, seen |-> sn, ok |-> TRUE]
    ELSE LET r == ProcessRowStep(d, cols, Head(rows), cch, sn, t)
         IN IF r.ok THEN RunRows(r.db, cols, Tail(rows), r.caches, r.seen, t)
            ELSE [db |-> r.db, seen |-> r.seen, ok |-> FALSE]

\* lines 261-311 on the DataFrame f
RunLoaded(d, f, pm, t) ==
    LET r == RunRows(ensure_schema(d), f.columns, f.rows, NoCaches, {}, t)
    IN IF r.ok THEN [db |-> PurgeMissing(r.db, pm, r.seen, t), ok |-> TRUE]
       ELSE [db |-> r.db, ok |-> FALSE]

RunPass(d, sheet, pm, t) ==
    IF ~LoadOk(sheet) THEN [db |-> d, ok |-> FALSE]
    ELSE RunLoaded(d, load_sheet(sheet), pm, t)

----------------------------------------------------------------------------
(* The state machine of one pass. *)

NoDf == [columns |-> {}, rows |-> <<>>]
NoSrc == [ext |-> <<>>, columns |-> {}]

NoFile == [exists |-> FALSE, mtime |-> 0, sheet |-> [ext |-> <<>>, columns |-> {}, rows |-> <<>>]]

Init ==
    /\ db = NoDb
    /\ now = 1
    /\ pc = "idle"
    /\ src = NoSrc
    /\ df = NoDf
    /\ purge = FALSE
    /\ i = 1
    /\ caches = NoCaches
    /\ seen = {}
    /\ err = "none"
    /\ pre = NoDb
    /\ passes = 0
    /\ wpc = "off"
    /\ purge_missing = FALSE
    /\ last_mtime = 0
    /\ mtime = 0
    /\ file = NoFile
    /\ ticks = <<>>
    /\ workers = <<>>

\* lines 260-271: load_sheet, connect, ensure_schema, empty caches and seen set.
\* A SystemExit of load_sheet leaves before sqlite3.connect.
\* dt is the time that passed since the previous pass began, in the unit of
\* CURRENT_TIMESTAMP (a second).
BeginPass(sheet, pm, dt) ==
    /\ passes' = passes + 1
    /\ now' = now + dt
    /\ purge' = pm
    /\ src' = [ext |-> sheet.ext, columns |-> sheet.columns]
    /\ pre' = db
    /\ i' = 1
    /\ caches' = NoCaches
    /\ seen' = {}
    /\ IF LoadOk(sheet)
       THEN /\ df' = load_sheet(sheet)
            /\ db' = ensure_schema(db)
            /\ pc' = "rows"
            /\ err' = "none"
       ELSE /\ df' = NoDf
            /\ db' = db
            /\ pc' = "failed"
            /\ err' = "SystemExit"

\* main(), one-shot mode: sync_excel_to_sqlite(args.excel, args.db, purge_missing)
\* n bounds the number of invocations
OneShot(sheet, pm, dt, n) ==
    /\ wpc = "off"
    /\ pc = "idle"
    /\ passes < n
    /\ BeginPass(sheet, pm, dt)
    /\ UNCHANGED <<watchVars, workers>>

\* the loop with the purge step in the finally block: it runs when a row raises
ProcessRow_PurgeOnError ==
    /\ pc = "rows"
    /\ i <= Len(df.rows)
    /\ LET r == ProcessRowStep(db, df.columns, df.rows[i], caches, seen, now)
       IN /\ caches' = r.caches
          /\ seen' = r.seen
          /\ IF r.ok
             THEN db' = r.db /\ i' = i + 1 /\ pc' = "rows" /\ err' = "none"
             ELSE /\ db' = PurgeMissing(r.db, purge, r.seen, now)
                  /\ i' = i /\ pc' = "failed" /\ err' = "Exception"
    /\ UNCHANGED <<now, src, df, purge, pre, passes, watchVars, workers>>

\* one iteration of "for _, r in df.iterrows()"
ProcessRow ==
    /\ pc = "rows"
    /\ i <= Len(df.rows)
    /\ LET r == ProcessRowStep(db, df.columns, df.rows[i], caches, seen, now)
       IN /\ db' = r.db
          /\ caches' = r.caches
          /\ seen' = r.seen
          /\ IF r.ok
             THEN i' = i + 1 /\ pc' = "rows" /\ err' = "none"
             ELSE i' = i /\ pc' = "failed" /\ err' = "Exception"
    /\ UNCHANGED <<now, src, df, purge, pre, passes, watchVars, workers>>

\* lines 300-311: the purge step after the last row, then conn.close()
FinishRows ==
    /\ pc = "rows"
    /\ i > Len(df.rows)
    /\ db' = PurgeMissing(db, purge, seen, now)
    /\ pc' = "done"
    /\ UNCHANGED <<now, src, df, purge, i, caches, seen, err, pre, passes, watchVars, workers>>

\* the pass state a finished call leaves behind: none
ClearPass ==
    /\ pc' = "idle"
    /\ src' = NoSrc
    /\ df' = NoDf
    /\ purge' = FALSE
    /\ i' = 1
    /\ caches' = NoCaches
    /\ seen' = {}
    /\ err' = "none"
    /\ pre' = NoDb

\* one-shot mode: the call returns (main prints "Synced") or its exception
\* ends the process
Return ==
    /\ wpc = "off"
    /\ pc \in {"done", "failed"}
    /\ ClearPass
    /\ UNCHANGED <<db, now, passes, watchVars, workers>>

----------------------------------------------------------------------------
(* Source snapshots. *)

SeqsUpTo(S, n) == UNION {[1..k -> S] : k \in 0..n}

Xlsx == <<".", "x", "l", "s", "x">>

BaseRow == [
    Id |-> Num(1), ProductName |-> Str(<<"a">>), Price |-> Num(10), Stock |-> Num(3),
    Category |-> Str(<<"S">>), Brand |-> Str(<<"B">>), Material |-> NaN,
    Model |-> NaN, DiscountPercent |-> NaN, WarrantyMonths |-> NaN, SKU |-> NaN,
    Active |-> NaN, Rating |-> NaN, TotalReviews |-> NaN, Tags |-> NaN
]

Sheet(rows) == [ext |-> Xlsx, columns |-> AllCols, rows |-> rows]

\* three row profiles that differ in every reconciled part of a product
ProfileRows(p) == {
    [BaseRow EXCEPT !.Id = Num(p), !.Category = Str(<<" ", "S">>),
                    !.Tags = Str(<<"a", ";", "b">>), !.Model = Str(<<"m">>)],
    [BaseRow EXCEPT !.Id = Num(p), !.SKU = Str(<<"X">>), !.Active = Str(<<"N", "o">>),
                    !.Tags = Str(<<"b", ",", " ", "c">>), !.Stock = Num(0)],
    [BaseRow EXCEPT !.Id = Num(p), !.SKU = Str(<<"Z">>), !.Category = Str(<<"T">>),
                    !.Material = Str(<<"M">>), !.Active = Str(<<"Y", "E", "S", " ">>),
                    !.Rating = Num(4)] }

MixedRows == ProfileRows(1) \cup ProfileRows(2)

MixedSheets == {Sheet(rows) : rows \in SeqsUpTo(MixedRows, MaxRows)}

\* seconds between two passes
Ticks == {0, 1}

Next ==
    \/ \E sh \in MixedSheets, pm \in BOOLEAN, dt \in Ticks : OneShot(sh, pm, dt, MaxPasses)
    \/ ProcessRow
    \/ FinishRows
    \/ Return

Spec == Init /\ [][Next]_vars

----------------------------------------------------------------------------
(* Passes over sheets that may list a product id more than once. *)

DupRows ==
    {[BaseRow EXCEPT !.Id = Num(1), !.SKU = k] : k \in {NaN, Str(<<"X">>), Str(<<"Z">>)}}
    \cup {[BaseRow EXCEPT !.Id = Num(2), !.SKU = Str(<<"X">>)]}

DupSheets == {Sheet(rows) : rows \in [1..(MaxRows + 2) -> DupRows]}

NextIdem ==
    \/ \E sh \in MixedSheets \cup DupSheets, pm \in BOOLEAN : OneShot(sh, pm, 1, MaxPasses)
    \/ ProcessRow
    \/ FinishRows
    \/ Return

SpecIdem == Init /\ [][NextIdem]_vars

----------------------------------------------------------------------------
(* What two stores are compared on. *)

\* a product row without updated_at
ProductBusiness(r) == [
    name |-> r.name, category_id |-> r.category_id, brand_id |-> r.brand_id,
    material_id |-> r.material_id, model |-> r.model, price |-> r.price,
    discount_percent |-> r.discount_percent, warranty_months |-> r.warranty_months,
    sku |-> r.sku, is_active |-> r.is_active, created_at |-> r.created_at ]

InventoryBusiness(r) == [
    stock_quantity |-> r.stock_quantity, reserved_quantity |-> r.reserved_quantity,
    reorder_point |-> r.reorder_point ]

RatingBusiness(r) == [average_rating |-> r.average_rating, total_reviews |-> r.total_reviews]

\* every table of the store, every column but updated_at and last_updated
Business(d) == [
    categories |-> d.categories, brands |-> d.brands, materials |-> d.materials,
    tags |-> d.tags,
    products |-> [p \in DOMAIN d.products |-> ProductBusiness(d.products[p])],
    inventory |-> [p \in DOMAIN d.inventory |-> InventoryBusiness(d.inventory[p])],
    product_ratings |-> [p \in DOMAIN d.product_ratings |-> RatingBusiness(d.product_ratings[p])],
    product_tags |-> d.product_tags ]

\* the ids of the rows of a sheet are pairwise distinct
DistinctIds(rows) ==
    \A a, b \in 1..Len(rows) : a # b => rows[a].Id # rows[b].Id

\* the pass that has just completed, run once more on the store it left
Rerun == RunLoaded(db, df, purge, now + 1)

----------------------------------------------------------------------------
(* C1 *)

\* C1 (as stated): whenever a pass has completed, running the same pass again on
\* the store it left leaves every table with the same rows and the same values
\* in all columns but updated_at / last_updated.
C1_IdempotentAnySheet ==
    pc = "done" => Business(Rerun.db) = Business(db)

\* C1 (amended): the same, for the sheets whose rows have pairwise distinct ids.
C1_IdempotentDistinctIds ==
    (pc = "done" /\ DistinctIds(df.rows)) =>
        Rerun.ok /\ Business(Rerun.db) = Business(db)

\* a purge-enabled pass has completed on a store that held a product the sheet
\* does not list, and left tag links and a purged product
C1_Witness ==
    /\ pc = "done"
    /\ purge
    /\ DistinctIds(df.rows)
    /\ Len(df.rows) >= 1
    /\ DOMAIN pre.products # {}
    /\ db.product_tags # {}
    /\ \E p \in DOMAIN db.products : p \notin seen /\ db.products[p].is_active = 0

----------------------------------------------------------------------------
(* Passes over sheets that differ in their tag expressions. *)

TagExprs == {
    Str(<<"a", ";", "b", ";", "c">>),
    Str(<<"b", ";", "d">>),
    Str(<<"a", ",", " ", "a">>),
    Str(<<" ", ";">>),
    NaN }

TagRows == {[BaseRow EXCEPT !.Id = Num(p), !.Tags = e] : p \in {1, 2}, e \in TagExprs}

TagSheets == {Sheet(rows) : rows \in SeqsUpTo(TagRows, MaxRows)}

NextTags ==
    \/ \E sh \in TagSheets, pm \in BOOLEAN : OneShot(sh, pm, 1, MaxPasses)
    \/ ProcessRow
    \/ FinishRows
    \/ Return

SpecTags == Init /\ [][NextTags]_vars

\* the row of the loop iteration that has just completed
LastRow == df.rows[i - 1]

LinkedTagIds(d, p) == {l[2] : l \in {m \in d.product_tags : m[1] = p}}

TagIdsOf(d, names) == {r.id : r \in {q \in d.tags : q.name \in names}}

TagsValue(row) == IF Hdr.Tags \in df.columns THEN row.Tags ELSE NaN

\* C2: when an iteration of the loop has completed, and with it sync_tags for
\* the row's product, every name parsed from the row's tag expression has a tag
\* row and the product's links are exactly the ids of these names, whatever
\* links the product had before.
C2_TagLinksExact ==
    (pc = "rows" /\ i > 1) =>
        LET names == Range(ParseTags(TagsValue(LastRow)))
        IN /\ names \subseteq {r.name : r \in db.tags}
           /\ LinkedTagIds(db, LastRow.Id.n) = TagIdsOf(db, names)

\* product 1 was linked to a, b and c when the pass began; its row now reads
\* "b;d" and its links are those of b and d
C2_Witness ==
    /\ pc = "rows" /\ i > 1
    /\ LastRow.Id.n = 1
    /\ LastRow.Tags = Str(<<"b", ";", "d">>)
    /\ LinkedTagIds(pre, 1) = TagIdsOf(pre, {<<"a">>, <<"b">>, <<"c">>})
    /\ Cardinality(LinkedTagIds(pre, 1)) = 3
    /\ LinkedTagIds(db, 1) = TagIdsOf(db, {<<"b">>, <<"d">>})
    /\ Cardinality(LinkedTagIds(db, 1)) = 2

----------------------------------------------------------------------------
(* Passes over sheets that list some of the products, with and without purge. *)

PurgeRows == {
    [BaseRow EXCEPT !.Id = Num(1)],
    [BaseRow EXCEPT !.Id = Num(1), !.Active = Str(<<"n", "o">>), !.Model = Str(<<"m">>)],
    [BaseRow EXCEPT !.Id = Num(2), !.Tags = Str(<<"a">>)],
    [BaseRow EXCEPT !.Id = Num(2), !.Active = Str(<<" ", "Y", "e", "s">>)],
    [BaseRow EXCEPT !.Id = Num(3), !.Active = Num(1), !.SKU = Str(<<"X">>)] }

PurgeSheets == {Sheet(rows) : rows \in SeqsUpTo(PurgeRows, MaxRows)}

NextPurge ==
    \/ \E sh \in PurgeSheets, pm \in BOOLEAN : OneShot(sh, pm, 1, MaxPasses + 1)
    \/ ProcessRow
    \/ FinishRows
    \/ Return

SpecPurge == Init /\ [][NextPurge]_vars

\* a product row without is_active and updated_at
ProductRest(r) == [ProductBusiness(r) EXCEPT !.is_active = 0]

\* C3: the purge step of a purge-enabled pass deletes no product; a product the
\* pass has not seen is inactive after it and has every other business field as
\* before the step and as when the pass began; a product the pass has seen is
\* left as it was.
C3_SoftDelete ==
    [][(pc = "rows" /\ pc' = "done" /\ purge) =>
         /\ DOMAIN db'.products = DOMAIN db.products
         /\ \A p \in DOMAIN db.products :
               IF p \in seen
               THEN db'.products[p] = db.products[p]
               ELSE /\ db'.products[p].is_active = 0
                    /\ ProductRest(db'.products[p]) = ProductRest(db.products[p])
                    /\ p \in DOMAIN pre.products
                    /\ ProductRest(db'.products[p]) = ProductRest(pre.products[p])]_vars

\* a purge-enabled pass has completed; it has seen one product and has made
\* inactive another one, which was active when the pass began
C3_Witness ==
    /\ pc = "done"
    /\ purge
    /\ seen # {}
    /\ \E p \in DOMAIN db.products \ seen :
          pre.products[p].is_active = 1 /\ db.products[p].is_active = 0

\* the rows of the pass for product p
RowsOf(p) == {k \in 1..Len(df.rows) : df.rows[k].Id = Num(p)}

\* the Active cell is unset, a truthy token or the number 1
ActiveTrueOrUnset(row) ==
    \/ Hdr.Active \notin df.columns
    \/ row.Active = NaN
    \/ row.Active = Num(1)
    \/ row.Active.k = "str" /\ lower(strip(row.Active.s)) \in TruthyTokens

\* C4: when a pass has completed, a product that was inactive when the pass
\* began and that the sheet lists, with Active true or unset in its rows, is
\* active.
C4_Reactivation ==
    pc = "done" =>
        \A p \in DOMAIN pre.products :
            ( /\ pre.products[p].is_active = 0
              /\ RowsOf(p) # {}
              /\ \A k \in RowsOf(p) : ActiveTrueOrUnset(df.rows[k]) )
            => db.products[p].is_active = 1

\* product 2, whose rows never carry a negative Active token, was inactive when
\* a purge-enabled pass began (an earlier purge has made it so), and the pass
\* that lists it has completed and left it active
C4_Witness ==
    /\ pc = "done"
    /\ purge
    /\ 2 \in DOMAIN pre.products
    /\ pre.products[2].is_active = 0
    /\ RowsOf(2) # {}
    /\ db.products[2].is_active = 1

----------------------------------------------------------------------------
(* Passes over files that load_sheet or a price constraint may reject. *)

PaddedPrice == <<" ", "P", "r", "i", "c", "e", " ">>

ErrColumns == {
    AllCols,
    AllCols \ {Hdr.Price},
    (AllCols \ {Hdr.Price}) \cup {PaddedPrice},
    AllCols \ {Hdr.Id, Hdr.Stock} }

ErrExts == {Xlsx, <<".", "C", "S", "V">>, <<".", "t", "x", "t">>}

ErrRows == {[BaseRow EXCEPT !.Id = Num(p), !.Price = Num(x), !.ProductName = Str(<<nm>>)] :
                p \in {1, 2}, x \in {10, 0, -5}, nm \in {"a"}}
           \cup {[BaseRow EXCEPT !.Id = Num(1), !.ProductName = Str(<<"b">>)]}

ErrSheets == {[ext |-> e, columns |-> c, rows |-> rows] :
                 e \in ErrExts, c \in ErrColumns, rows \in SeqsUpTo(ErrRows, MaxRows)}

NextErr ==
    \/ \E sh \in ErrSheets, pm \in BOOLEAN : OneShot(sh, pm, 1, MaxPasses)
    \/ ProcessRow
    \/ FinishRows
    \/ Return

SpecErr == Init /\ [][NextErr]_vars

\* no header of the file is, once trimmed, the required column c
LacksColumn(c) == \A h \in src.columns : strip(h) # c

UnsupportedExtension ==
    lower(src.ext) \notin {<<".", "x", "l", "s", "x">>, <<".", "x", "l", "s">>,
                           <<".", "x", "l", "s", "m">>, <<".", "c", "s", "v">>}

\* C8: while a pass is under way on a file that lacks one of the columns Id,
\* ProductName, Price, Stock, or whose extension is not supported, the pass has
\* failed and the store is the store it found: nothing was written or changed.
C8_PreconditionAbort ==
    ( /\ pc # "idle"
      /\ \/ \E c \in {Hdr.Id, Hdr.ProductName, Hdr.Price, Hdr.Stock} : LacksColumn(c)
         \/ UnsupportedExtension )
    => (pc = "failed" /\ db = pre)

\* a pass on a file without the Price column has failed on a store that holds
\* products
C8_Witness ==
    /\ pc = "failed"
    /\ err = "SystemExit"
    /\ LacksColumn(Hdr.Price)
    /\ ~UnsupportedExtension
    /\ DOMAIN pre.products # {}
    /\ db = pre

\* C9: the iteration of the loop on a row whose Price is 0 or negative raises:
\* the pass fails at that row, and the products, inventory and product_ratings
\* tables are left as they were before the iteration.
C9_PriceAbort ==
    [][( /\ pc = "rows"
         /\ i <= Len(df.rows)
         /\ df.rows[i].Price.k = "num"
         /\ df.rows[i].Price.n <= 0 )
       => ( /\ pc' = "failed"
            /\ i' = i
            /\ db'.products = db.products
            /\ db'.inventory = db.inventory
            /\ db'.product_ratings = db.product_ratings )]_vars

\* the pass has failed at its second row, whose Price is not positive and whose
\* product is in the store with other values than the row's and was not written
C9_Witness ==
    /\ pc = "failed"
    /\ err = "Exception"
    /\ i = 2
    /\ df.rows[2].Price.n <= 0
    /\ df.rows[2].Id # df.rows[1].Id
    /\ df.rows[2].Id.n \in DOMAIN pre.products
    /\ db.products[df.rows[2].Id.n] = pre.products[df.rows[2].Id.n]
    /\ db.products[df.rows[2].Id.n].name # df.rows[2].ProductName.s
    /\ db.products[df.rows[1].Id.n].updated_at = now

----------------------------------------------------------------------------
(* Passes over sheets that differ in their dimension names. *)

DimRows == {[BaseRow EXCEPT !.Id = Num(p), !.Category = c, !.Material = m] :
               p \in {1, 2},
               c \in {Str(<<"S">>), Str(<<" ", "S", " ">>), Str(<<"T">>)},
               m \in {NaN, Str(<<"M", " ">>)}}

DimSheets == {Sheet(rows) : rows \in SeqsUpTo(DimRows, MaxRows)}

NextDim ==
    \/ \E sh \in DimSheets, pm \in BOOLEAN : OneShot(sh, pm, 1, MaxPasses)
    \/ ProcessRow
    \/ FinishRows
    \/ Return

SpecDim == Init /\ [][NextDim]_vars

DimTables == {"categories", "brands", "materials"}

\* no two rows of a table share a name or an id
OneRowPerName(T) == \A r1, r2 \in T : (r1.name = r2.name \/ r1.id = r2.id) => r1 = r2

\* the product of row has, for the dimension column c of table t, the id of the
\* one row of t that carries the trimmed name, when that name is not blank
ResolvedTo(d, row, c, t, id) ==
    (row[c].k = "str" /\ strip(row[c].s) # <<>>) =>
        \E r \in d[t] : r.name = strip(row[c].s) /\ r.id = id

LastRowResolved ==
    (pc = "rows" /\ i > 1) =>
        LET q == db.products[LastRow.Id.n]
        IN /\ ResolvedTo(db, LastRow, "Category", "categories", q.category_id)
           /\ ResolvedTo(db, LastRow, "Brand", "brands", q.brand_id)
           /\ ResolvedTo(db, LastRow, "Material", "materials", q.material_id)

\* C10: no step removes a row of a dimension table or changes its name or id;
\* after every step each dimension table has at most one row per name; and after
\* every iteration of the loop the product of its row refers, for each non-blank
\* dimension name of the row, to the one row of that name.
C10_DimensionsStable ==
    [][ /\ \A t \in DimTables : db[t] \subseteq db'[t] /\ OneRowPerName(db'[t])
        /\ LastRowResolved' ]_vars

\* in a second pass two rows of different products name the category "S" and
\* " S "; both products refer to the one category row of that name, which the
\* store held under the same id when the pass began
C10_Witness ==
    /\ pc = "rows" /\ i = 3
    /\ passes = 2
    /\ df.rows[1].Id # df.rows[2].Id
    /\ df.rows[1].Category = Str(<<"S">>)
    /\ df.rows[2].Category = Str(<<" ", "S", " ">>)
    /\ db.products[1].category_id = db.products[2].category_id
    /\ \E r \in pre.categories : r.name = <<"S">> /\ r.id = db.products[1].category_id
    /\ Cardinality(db.categories) = 2

----------------------------------------------------------------------------
(* watch_and_sync (lines 313-331). *)

\* one good sheet, one whose only row has a price of 0, one without the Price
\* column and one with an extension load_sheet does not know
WatchSheets == {
    Sheet(<<BaseRow>>),
    Sheet(<<[BaseRow EXCEPT !.Price = Num(0)]>>),
    [ext |-> Xlsx, columns |-> AllCols \ {Hdr.Price}, rows |-> <<BaseRow>>],
    [ext |-> <<".", "t", "x", "t">>, columns |-> AllCols, rows |-> <<BaseRow>>] }

Mtimes == 1..MaxMtime

InitWatch ==
    /\ db = NoDb
    /\ now = 1
    /\ pc = "idle"
    /\ src = NoSrc
    /\ df = NoDf
    /\ purge = FALSE
    /\ i = 1
    /\ caches = NoCaches
    /\ seen = {}
    /\ err = "none"
    /\ pre = NoDb
    /\ passes = 0
    /\ wpc = "poll"
    /\ purge_missing \in BOOLEAN
    /\ last_mtime = 0
    /\ mtime = 0
    /\ file \in {NoFile} \cup {[exists |-> TRUE, mtime |-> 1, sheet |-> sh] : sh \in WatchSheets}
    /\ ticks = <<>>
    /\ workers = <<>>

\* the loop with "last_mtime = None" in the FileNotFoundError branch
Poll_MissingResets ==
    /\ wpc = "poll"
    /\ Len(ticks) < MaxTicks
    /\ IF ~file.exists
       THEN /\ ticks' = Append(ticks, [seen |-> 0, sync |-> FALSE])
            /\ last_mtime' = 0
            /\ UNCHANGED <<db, now, passVars, passes, wpc, purge_missing, workers, mtime, file>>
       ELSE /\ mtime' = file.mtime
            /\ IF last_mtime = 0 \/ file.mtime # last_mtime
               THEN /\ ticks' = Append(ticks, [seen |-> file.mtime, sync |-> TRUE])
                    /\ wpc' = "syncing"
                    /\ BeginPass(file.sheet, purge_missing, 1)
                    /\ UNCHANGED <<purge_missing, workers, last_mtime, file>>
               ELSE /\ ticks' = Append(ticks, [seen |-> file.mtime, sync |-> FALSE])
                    /\ UNCHANGED <<db, now, passVars, passes, wpc, purge_missing, workers, last_mtime, file>>

\* one iteration of "while True" up to the call of sync_excel_to_sqlite or,
\* without a call, to time.sleep: lines 317-321 and 327-331
Poll ==
    /\ wpc = "poll"
    /\ Len(ticks) < MaxTicks
    /\ IF ~file.exists
       THEN \* os.path.getmtime raises FileNotFoundError: "File not found. Waiting..."
            /\ ticks' = Append(ticks, [seen |-> 0, sync |-> FALSE])
            /\ UNCHANGED <<db, now, passVars, passes, wpc, purge_missing, workers, last_mtime, mtime, file>>
       ELSE /\ mtime' = file.mtime
            /\ IF last_mtime = 0 \/ file.mtime # last_mtime
               THEN /\ ticks' = Append(ticks, [seen |-> file.mtime, sync |-> TRUE])
                    /\ wpc' = "syncing"
                    /\ BeginPass(file.sheet, purge_missing, 1)
                    /\ UNCHANGED <<purge_missing, workers, last_mtime, file>>
               ELSE /\ ticks' = Append(ticks, [seen |-> file.mtime, sync |-> FALSE])
                    /\ UNCHANGED <<db, now, passVars, passes, wpc, purge_missing, workers, last_mtime, file>>

\* the loop with "last_mtime = os.path.getmtime(excel_path)" after the call in
\* the place of line 323
SyncReturns_RereadMtime ==
    /\ wpc = "syncing"
    /\ pc = "done"
    /\ last_mtime' = IF file.exists THEN file.mtime ELSE mtime
    /\ wpc' = "poll"
    /\ ClearPass
    /\ UNCHANGED <<db, now, passes, purge_missing, workers, mtime, file, ticks>>

\* lines 322-323 and 331: the call returned
SyncReturns ==
    /\ wpc = "syncing"
    /\ pc = "done"
    /\ last_mtime' = mtime
    /\ wpc' = "poll"
    /\ ClearPass
    /\ UNCHANGED <<db, now, passes, purge_missing, workers, mtime, file, ticks>>

\* lines 324-331: the call raised.  "except Exception" catches the errors of
\* the rows; SystemExit is no Exception and leaves watch_and_sync
SyncRaises ==
    /\ wpc = "syncing"
    /\ pc = "failed"
    /\ wpc' = IF err = "SystemExit" THEN "exited" ELSE "poll"
    /\ ClearPass
    /\ UNCHANGED <<db, now, passes, purge_missing, workers, last_mtime, mtime, file, ticks>>

\* the stores a KeyboardInterrupt can leave: it is raised between two
\* bytecodes of the pass under way, whose connection "finally: conn.close()"
\* closes, so what the statements since the last commit wrote is lost
InterruptedStores ==
    IF pc = "rows" /\ i <= Len(df.rows)
    THEN RowCommitPoints(db, df.columns, df.rows[i], caches, seen, now)
    ELSE IF pc = "rows" THEN {db, PurgeMissing(db, purge, seen, now)}
    ELSE {db}

\* Ctrl+C.  Lines 324-326 catch it during the call and during getmtime;
\* time.sleep at line 331 is outside the try, so there KeyboardInterrupt leaves
\* watch_and_sync
Interrupt ==
    /\ wpc \in {"poll", "syncing"}
    /\ wpc' \in IF wpc = "syncing" THEN {"stopped"} ELSE {"stopped", "interrupted"}
    /\ db' \in InterruptedStores
    /\ ClearPass
    /\ UNCHANGED <<now, passes, purge_missing, workers, last_mtime, mtime, file, ticks>>

\* the operator saves the source file
WriteFile(sheet, m) ==
    /\ wpc \in {"poll", "syncing"}
    /\ file' = [exists |-> TRUE, mtime |-> m, sheet |-> sheet]
    /\ file' # file
    /\ UNCHANGED <<db, now, passVars, passes, wpc, purge_missing, workers, last_mtime, mtime, ticks>>

\* the operator removes the source file
RemoveFile ==
    /\ wpc \in {"poll", "syncing"}
    /\ file.exists
    /\ file' = [file EXCEPT !.exists = FALSE]
    /\ UNCHANGED <<db, now, passVars, passes, wpc, purge_missing, workers, last_mtime, mtime, ticks>>

NextWatch ==
    \/ Poll
    \/ ProcessRow
    \/ FinishRows
    \/ SyncReturns
    \/ SyncRaises
    \/ Interrupt
    \/ \E sh \in WatchSheets, m \in Mtimes : WriteFile(sh, m)
    \/ RemoveFile

SpecWatch == InitWatch /\ [][NextWatch]_vars

----------------------------------------------------------------------------
(* The watch loop's claims, under SpecWatch. *)

\* C5: of two consecutive poll ticks that read the same modification time at
\* most one calls sync_excel_to_sqlite, and a tick that reads another
\* modification time than the tick before it calls it.
C5_Debounce ==
    \A k \in 1..(Len(ticks) - 1) :
        /\ (ticks[k].seen # 0 /\ ticks[k + 1].seen = ticks[k].seen)
               => ~(ticks[k].sync /\ ticks[k + 1].sync)
        /\ (ticks[k].seen # 0 /\ ticks[k + 1].seen \notin {0, ticks[k].seen})
               => ticks[k + 1].sync

\* C6: when the call of a tick raised and the loop goes on to poll, the
\* modification time that tick read is the baseline last_mtime.
C6_BaselineAfterError ==
    [][ (wpc = "syncing" /\ pc = "failed" /\ wpc' = "poll") => last_mtime' = mtime ]_vars

\* C7: whatever a pass raises, watch_and_sync goes on polling: no failure of a
\* pass ends it.
C7_ErrorsAbsorbed ==
    wpc # "exited"

----------------------------------------------------------------------------
(* The order of the rows, under Spec. *)

\* the rows of a sheet in every order
RowOrders(rows) ==
    {[k \in 1..Len(rows) |-> rows[f[k]]] :
        f \in {g \in [1..Len(rows) -> 1..Len(rows)] :
                  \A a, b \in 1..Len(rows) : a # b => g[a] # g[b]}}

\* the name a dimension id stands for, <<>> for NULL
NameOf(rows, id) ==
    IF \E r \in rows : r.id = id THEN (CHOOSE r \in rows : r.id = id).name ELSE <<>>

\* a store with every dimension and tag id replaced by the name it stands for
Named(d) == [
    categories |-> {r.name : r \in d.categories},
    brands |-> {r.name : r \in d.brands},
    materials |-> {r.name : r \in d.materials},
    tags |-> {r.name : r \in d.tags},
    products |-> [p \in DOMAIN d.products |->
        [ProductBusiness(d.products[p]) EXCEPT
            !.category_id = NameOf(d.categories, @),
            !.brand_id = NameOf(d.brands, @),
            !.material_id = NameOf(d.materials, @)]],
    inventory |-> [p \in DOMAIN d.inventory |-> InventoryBusiness(d.inventory[p])],
    product_ratings |-> [p \in DOMAIN d.product_ratings |-> RatingBusiness(d.product_ratings[p])],
    product_tags |-> {<<l[1], NameOf(d.tags, l[2])>> : l \in d.product_tags} ]

\* the pass that has just completed, run from the store it found on the rows
\* in another order
Reordered(rows) == RunLoaded(pre, [df EXCEPT !.rows = rows], purge, now)

\* C11 (as stated): when a pass has completed, every order of its rows that
\* completes from the same starting store leaves the same store.
C11_OrderIndependent ==
    pc = "done" =>
        \A rows \in RowOrders(df.rows) :
            Reordered(rows).ok => Business(Reordered(rows).db) = Business(db)

\* C11 (amended): when a pass over rows with pairwise distinct product ids has
\* completed, every order of its rows that completes from the same starting
\* store leaves the same store up to the numbering of the dimension and tag
\* rows: the same names in every dimension table, and every product with the
\* same values, the same dimension names and the same tag names.
C11_OrderIndependentByName ==
    (pc = "done" /\ DistinctIds(df.rows)) =>
        \A rows \in RowOrders(df.rows) :
            Reordered(rows).ok => Named(Reordered(rows).db) = Named(db)

\* a pass over two rows that name two categories the store did not have has
\* completed; the rows in the other order complete too, with the category ids
\* the other way round
C11_Witness ==
    /\ pc = "done"
    /\ Len(df.rows) = 2
    /\ DistinctIds(df.rows)
    /\ Cardinality(db.categories \ pre.categories) = 2
    /\ db.product_tags # {}
    /\ LET r == Reordered(<<df.rows[2], df.rows[1]>>)
       IN /\ r.ok
          /\ r.db.categories # db.categories
          /\ Named(r.db) = Named(db)

----------------------------------------------------------------------------
(* Passes over sheets whose rows fail at different points of the loop body. *)

FailRows == {
    \* two rows that succeed
    [BaseRow EXCEPT !.Id = Num(1), !.Model = Str(<<"m">>), !.Rating = Num(4),
                    !.Tags = Str(<<"a", ";", "b">>)],
    [BaseRow EXCEPT !.Id = Num(2), !.Tags = Str(<<"b">>)],
    \* CHECK(average_rating <= 5.0) fails, after the commit of line 199
    [BaseRow EXCEPT !.Id = Num(1), !.Rating = Num(7)],
    \* CHECK(price > 0) fails, after get_or_create_dim has committed "T"
    [BaseRow EXCEPT !.Id = Num(2), !.Price = Num(0), !.Category = Str(<<"T">>)],
    \* CHECK(discount_percent <= 100) fails
    [BaseRow EXCEPT !.Id = Num(3), !.DiscountPercent = Num(150)],
    \* int(get("Stock", 0)) raises ValueError, after the commit of line 199
    [BaseRow EXCEPT !.Id = Num(3), !.Stock = Str(<<"x">>)] }

FailSheets == {Sheet(rows) : rows \in SeqsUpTo(FailRows, MaxRows + 1)}

NextFail ==
    \/ \E sh \in FailSheets, pm \in BOOLEAN : OneShot(sh, pm, 1, MaxPasses)
    \/ ProcessRow
    \/ FinishRows
    \/ Return

SpecFail == Init /\ [][NextFail]_vars

\* what the store holds for product p: its rows without their timestamps and
\* the tags it is linked to
ProductSlice(d, p) == [
    product |-> IF p \in DOMAIN d.products
                THEN <<ProductBusiness(d.products[p])>> ELSE <<>>,
    inventory |-> IF p \in DOMAIN d.inventory
                  THEN <<InventoryBusiness(d.inventory[p])>> ELSE <<>>,
    rating |-> IF p \in DOMAIN d.product_ratings
               THEN <<RatingBusiness(d.product_ratings[p])>> ELSE <<>>,
    tags |-> LinkedTagIds(d, p) ]

\* the store the rows before row i of the pass under way leave on their own
Prefix == RunRows(ensure_schema(pre), df.columns, SubSeq(df.rows, 1, i - 1), NoCaches, {}, now)

PrefixIds == {df.rows[j].Id.n : j \in 1..(i - 1)}

\* C12: when the loop has raised at row i, every product of the rows before it
\* is in the store as those rows wrote it (product, inventory, rating, links),
\* and every product of neither these rows nor row i is as the pass found it:
\* no later row was applied.
C12_DurablePrefix ==
    (pc = "failed" /\ err = "Exception") =>
        /\ Prefix.ok
        /\ \A p \in PrefixIds : ProductSlice(db, p) = ProductSlice(Prefix.db, p)
        /\ \A p \in 1..3 : p \notin PrefixIds \cup {df.rows[i].Id.n}
               => ProductSlice(db, p) = ProductSlice(pre, p)

----------------------------------------------------------------------------
(* The purge step and failed passes, under SpecFail. *)

\* the product ids of the rows the loop has reached, the failing row included
ReachedIds == {df.rows[j].Id.n : j \in 1..i}

----------------------------------------------------------------------------
(* The purge flag, under SpecPurge. *)

\* the product ids the sheet of the pass lists
SheetIds == {df.rows[k].Id.n : k \in 1..Len(df.rows)}

\* C14: during and after a pass without purge_missing, every product that was
\* in the store and that the sheet does not list has its row, all columns,
\* and its inventory, rating and links as the pass found them; and the purge
\* step of a purge-enabled pass that has seen every stored product writes
\* nothing.
C14_PurgeOptIn ==
    /\ []( (pc \in {"rows", "done", "failed"} /\ ~purge) =>
             \A p \in DOMAIN pre.products \ SheetIds :
                 /\ p \in DOMAIN db.products
                 /\ db.products[p] = pre.products[p]
                 /\ ProductSlice(db, p) = ProductSlice(pre, p) )
    /\ [][ (pc = "rows" /\ pc' = "done" /\ purge /\ DOMAIN db.products \subseteq seen)
             => db' = db ]_vars

\* a pass without purge_missing has completed on a sheet that lists one of the
\* two products the store held; the other one, active and linked to a tag, is
\* as it was
C14_Witness ==
    /\ pc = "done"
    /\ ~purge
    /\ Len(df.rows) >= 1
    /\ \E p \in DOMAIN pre.products \ SheetIds :
          /\ pre.products[p].is_active = 1
          /\ LinkedTagIds(pre, p) # {}
          /\ db.products[p] = pre.products[p]
    /\ SheetIds \cap DOMAIN pre.products # {}

----------------------------------------------------------------------------
(* Passes and file changes in the watch loop, under SpecWatch. *)

LastTick == ticks[Len(ticks)]

----------------------------------------------------------------------------
(* How the watch loop ends, under SpecWatch. *)

\* C16: a stop request is honoured between passes only: a pass that is
\* processing rows is not cut short by it.
C16_StopBetweenPasses ==
    [][ (wpc = "syncing" /\ pc = "rows") => wpc' # "stopped" ]_vars


\* C17: a tick that finds no file starts no pass, is reported ("File not
\* found. Waiting..."), leaves the baseline and the store as they were, and
\* leaves the loop polling.
C17_MissingFileTick ==
    [][ (wpc = "poll" /\ ticks' # ticks /\ ~file.exists) =>
           /\ wpc' = "poll"
           /\ pc' = "idle"
           /\ passes' = passes
           /\ last_mtime' = last_mtime
           /\ db' = db
           /\ ticks' = Append(ticks, [seen |-> 0, sync |-> FALSE]) ]_vars

\* after a pass that recorded a baseline, a tick has found the file gone, and
\* the loop is polling with that baseline
C17_Witness ==
    /\ wpc = "poll"
    /\ Len(ticks) >= 2
    /\ LastTick = [seen |-> 0, sync |-> FALSE]
    /\ ticks[Len(ticks) - 1].sync
    /\ last_mtime = ticks[Len(ticks) - 1].seen
    /\ ~file.exists

\* C18: a tick that finds the file, after a tick that found it missing, starts a
\* pass, whatever the modification time it reads.
C18_ReappearanceSyncs ==
    \A k \in 1..(Len(ticks) - 1) :
        (ticks[k].seen = 0 /\ ticks[k + 1].seen # 0) => ticks[k + 1].sync

----------------------------------------------------------------------------
(* What holds of the store in every state, under SpecFail. *)

\* C19: no step, of a pass that completes or of one that fails, with or
\* without purge, removes a product or a row of categories, brands or
\* materials, or changes the name or the id of such a row.
C19_NoHardDelete ==
    [][ /\ DOMAIN db.products \subseteq DOMAIN db'.products
        /\ \A t \in DimTables : db[t] \subseteq db'[t] /\ OneRowPerName(db'[t]) ]_vars

\* a purge-enabled pass has completed that lists neither a product the store
\* held nor that product's category: both are in the store, the product inactive
C19_Witness ==
    /\ pc = "done"
    /\ purge
    /\ \E p \in DOMAIN pre.products \ seen :
          /\ pre.products[p].is_active = 1
          /\ p \in DOMAIN db.products
          /\ db.products[p].is_active = 0
    /\ \E r \in pre.categories :
          /\ r \in db.categories
          /\ \A k \in 1..Len(df.rows) : DimName(df.columns, df.rows[k], "Category") # Str(r.name)

\* C20: in every state every stored product has a price above 0 and a
\* discount_percent from 0 to 100, and every stored rating an average_rating
\* from 0 to 5.
C20_ValueRanges ==
    /\ \A p \in DOMAIN db.products :
          /\ db.products[p].price > 0
          /\ db.products[p].discount_percent >= 0
          /\ db.products[p].discount_percent <= 100
    /\ \A p \in DOMAIN db.product_ratings :
          /\ db.product_ratings[p].average_rating >= 0
          /\ db.product_ratings[p].average_rating <= 5

\* a pass has failed at a row with Rating 7 for a product whose stored rating,
\* written by an earlier row, is 4
C20_Witness ==
    /\ pc = "failed"
    /\ err = "Exception"
    /\ df.rows[i].Rating = Num(7)
    /\ df.rows[i].Id.n \in DOMAIN db.product_ratings
    /\ db.product_ratings[df.rows[i].Id.n].average_rating = 4

----------------------------------------------------------------------------
(* One row as a unit, under SpecFail. *)

\* the rows the store holds for product p, all columns
StoredRows(d, p) == [
    product |-> IF p \in DOMAIN d.products THEN <<d.products[p]>> ELSE <<>>,
    inventory |-> IF p \in DOMAIN d.inventory THEN <<d.inventory[p]>> ELSE <<>>,
    rating |-> IF p \in DOMAIN d.product_ratings THEN <<d.product_ratings[p]>> ELSE <<>> ]

\* C21: when the loop has raised at row i, the store holds for the product of
\* that row what it held before the row was reached: the row has committed
\* neither its product values nor its inventory or rating on their own.
C21_NoPartialCommit ==
    (pc = "failed" /\ err = "Exception") =>
        StoredRows(db, df.rows[i].Id.n) = StoredRows(Prefix.db, df.rows[i].Id.n)


\* the sheets a failed pass is retried with: rows that succeed
RetrySheets ==
    {Sheet(rows) : rows \in SeqsUpTo(
        {r \in FailRows : r.Tags # NaN}, MaxRows)}

\* the products of a store with their children and links, ids of dimensions
\* and tags replaced by names, no timestamp
Entities(d) == [
    products |-> [p \in DOMAIN d.products |-> [Named(d).products[p] EXCEPT !.created_at = 0]],
    inventory |-> Named(d).inventory,
    product_ratings |-> Named(d).product_ratings,
    product_tags |-> Named(d).product_tags ]

\* C22: when a pass has failed at row i, a pass that then completes on any
\* sheet holding the rows before row i leaves the products, with their
\* children, dimension names and tag names, that it would have left on the
\* store the failed pass began with.
C22_RetryConvergent ==
    (pc = "failed" /\ err = "Exception") =>
        \A sh \in RetrySheets :
            (\A j \in 1..(i - 1) : df.rows[j] \in Range(sh.rows)) =>
                LET retried == RunLoaded(db, load_sheet(sh), purge, now + 1)
                    direct == RunLoaded(pre, load_sheet(sh), purge, now + 1)
                IN retried.ok =>
                     (direct.ok /\ Entities(retried.db) = Entities(direct.db))

----------------------------------------------------------------------------
(* get_or_create_dim called by two workers, each on a connection of its own
   to the same database file.  SQLite lets one connection write at a time:
   the INSERT of line 128 takes the write lock of the file and the commit of
   line 129 releases it; an INSERT that finds the lock taken waits, and raises
   OperationalError (database is locked) when the busy timeout of the
   connection runs out first. *)

Workers == {1, 2}

RaceNames == {NaN, Str(<<" ">>), Str(<<"S">>), Str(<<" ", "S">>), Str(<<"T">>)}

RaceStores ==
    {ensure_schema(NoDb),
     InsertNameIgnore(ensure_schema(NoDb), "categories", <<"S">>)}

InitRace ==
    /\ db \in RaceStores
    /\ pre = db
    /\ workers \in [Workers -> [t : {"categories", "brands"}, name : RaceNames,
                                pc : {"called"}, view : {NoDb}, id : {NULL}]]
    /\ now = 1
    /\ pc = "idle"
    /\ src = NoSrc
    /\ df = NoDf
    /\ purge = FALSE
    /\ i = 1
    /\ caches = NoCaches
    /\ seen = {}
    /\ err = "none"
    /\ passes = 0
    /\ wpc = "off"
    /\ purge_missing = FALSE
    /\ last_mtime = 0
    /\ mtime = 0
    /\ file = NoFile
    /\ ticks = <<>>

raceRest == <<now, pc, src, df, purge, i, caches, seen, err, pre, passes, watchVars>>

Blank(name) == ~notna(name) \/ str(name) = <<>> \/ strip(str(name)) = <<>>

WriteLocked == \E w \in Workers : workers[w].pc = "inserted"

\* UNIQUE on the name column of the dimension tables
NameUnique(T) == \A r1, r2 \in T : r1.name = r2.name => r1 = r2

\* lines 124-125: return None
WorkerBlank(w) ==
    /\ workers[w].pc = "called"
    /\ Blank(workers[w].name)
    /\ workers' = [workers EXCEPT ![w].pc = "returned", ![w].id = NULL]
    /\ UNCHANGED <<db, raceRest>>

\* lines 126-128: the INSERT, run when no other connection holds the write
\* lock; its row stays in the transaction of the worker until the commit
WorkerInsert(w) ==
    /\ workers[w].pc = "called"
    /\ ~Blank(workers[w].name)
    /\ ~WriteLocked
    /\ LET d1 == InsertNameIgnore(db, workers[w].t, strip(str(workers[w].name)))
       IN workers' = [workers EXCEPT
                         ![w].pc = IF NameUnique(d1[workers[w].t])
                                   THEN "inserted" ELSE "IntegrityError",
                         ![w].view = d1]
    /\ UNCHANGED <<db, raceRest>>

\* line 128 when the lock is not released within the busy timeout
WorkerLockTimeout(w) ==
    /\ workers[w].pc = "called"
    /\ ~Blank(workers[w].name)
    /\ WriteLocked
    /\ workers' = [workers EXCEPT ![w].pc = "OperationalError"]
    /\ UNCHANGED <<db, raceRest>>

\* line 129: conn.commit()
WorkerCommit(w) ==
    /\ workers[w].pc = "inserted"
    /\ db' = workers[w].view
    /\ workers' = [workers EXCEPT ![w].pc = "committed"]
    /\ UNCHANGED raceRest

\* lines 130-132: the SELECT and the return of its id
WorkerSelect(w) ==
    /\ workers[w].pc = "committed"
    /\ workers' = [workers EXCEPT
                      ![w].pc = "returned",
                      ![w].id = SelectId(db, workers[w].t, strip(str(workers[w].name)))]
    /\ UNCHANGED <<db, raceRest>>

NextRace ==
    \E w \in Workers :
        \/ WorkerBlank(w)
        \/ WorkerInsert(w)
        \/ WorkerLockTimeout(w)
        \/ WorkerCommit(w)
        \/ WorkerSelect(w)

SpecRace == InitRace /\ [][NextRace]_vars

\* the two workers were called with the same table and with names that are
\* not blank and trim to the same name, of which the table had no row
SameNewName ==
    /\ workers[1].t = workers[2].t
    /\ ~Blank(workers[1].name) /\ ~Blank(workers[2].name)
    /\ strip(str(workers[1].name)) = strip(str(workers[2].name))
    /\ \A r \in pre[workers[1].t] : r.name # strip(str(workers[1].name))

\* C23: when two workers run get_or_create_dim for the same new name that is
\* not blank on the same table, under every interleaving of their INSERT,
\* commit and SELECT steps neither fails on the uniqueness of the name, the
\* table never holds two rows of that name, and once both have returned the
\* table holds exactly one row of that name and both returned its id.
C23_RaceSafe ==
    SameNewName =>
        LET t == workers[1].t
            nm == strip(str(workers[1].name))
            rows == {r \in db[t] : r.name = nm}
        IN /\ \A w \in Workers : workers[w].pc # "IntegrityError"
           /\ Cardinality(rows) <= 1
           /\ (\A w \in Workers : workers[w].pc = "returned") =>
                  /\ Cardinality(rows) = 1
                  /\ \A w \in Workers : \A r \in rows : workers[w].id = r.id

\* both workers have returned from a call for the same new name, and the
\* second INSERT was the ignored one: the sequence advanced twice
C23_Witness ==
    /\ SameNewName
    /\ \A w \in Workers : workers[w].pc = "returned" /\ workers[w].id # NULL
    /\ db.seq[workers[1].t] = pre.seq[workers[1].t] + 2

----------------------------------------------------------------------------
(* Full overwrite. *)

\* the product, inventory and rating rows of product p, dimension ids as the
\* names they stand for, without the timestamps
Scalars(d, p) == [
    product |-> [Named(d).products[p] EXCEPT !.created_at = 0],
    inventory |-> Named(d).inventory[p],
    rating |-> Named(d).product_ratings[p] ]

\* the last row of the sheet that carries the id p
LastRowOf(p) ==
    df.rows[CHOOSE k \in 1..Len(df.rows) :
               /\ df.rows[k].Id.n = p
               /\ \A j \in (k + 1)..Len(df.rows) : df.rows[j].Id.n # p]

\* a pass over the one row on a database that holds nothing
Alone(row) == RunLoaded(NoDb, [df EXCEPT !.rows = <<row>>], FALSE, now)

\* C24: after a successful pass every scalar field of a product seen in the
\* pass, and of its inventory and rating rows, is what a pass over its row
\* alone writes to an empty database: nothing of what an earlier pass stored
\* for the product is left.
C24_FullOverwrite ==
    pc = "done" =>
        \A p \in seen :
            /\ Alone(LastRowOf(p)).ok
            /\ Scalars(db, p) = Scalars(Alone(LastRowOf(p)).db, p)

\* a pass has completed on a store where one of its products had a model and
\* one had a material, a rating and a sku, and the rows of the pass name none
C24_Witness ==
    /\ pc = "done"
    /\ \E p \in seen \cap DOMAIN pre.products :
          pre.products[p].model # NaN /\ db.products[p].model = NaN
    /\ \E p \in seen \cap DOMAIN pre.products :
          /\ pre.products[p].material_id # NULL /\ db.products[p].material_id = NULL
          /\ pre.products[p].sku # NaN /\ db.products[p].sku = NaN
          /\ pre.product_ratings[p].average_rating = 4
          /\ db.product_ratings[p].average_rating = 0

----------------------------------------------------------------------------
(* Passes over sheets whose rows have absent and blank dimension names. *)

BlankCells == {NaN, Str(<<>>), Str(<<" ">>), Str(<<" ", " ">>)}

BlankRows == {[BaseRow EXCEPT !.Id = Num(p), !.Category = c, !.Material = m] :
                 p \in {1, 2},
                 c \in {Str(<<"S">>), Str(<<" ">>)},
                 m \in {NaN, Str(<<" ">>), Str(<<"M">>)}}

BlankSheets == {Sheet(rows) : rows \in SeqsUpTo(BlankRows, MaxRows)}

NextBlank ==
    \/ \E sh \in BlankSheets, pm \in BOOLEAN : OneShot(sh, pm, 1, MaxPasses)
    \/ ProcessRow
    \/ FinishRows
    \/ Return

SpecBlank == Init /\ [][NextBlank]_vars

DimColumns == {<<"Category", "categories">>, <<"Brand", "brands">>,
               <<"Material", "materials">>}

\* the cell holds no name: it is empty, or a string of nothing but whitespace
IsBlankCell(c) == ~notna(c) \/ strip(str(c)) = <<>>

\* C25: get_or_create_dim called with an absent or blank name on the store of
\* any state of a pass returns no id and leaves every table and sequence as it
\* is; the loop body on a row with an absent or blank name in a dimension
\* column adds no row to that dimension table; and a row whose Material is
\* absent or blank, its Category and Brand named, is stored with material_id
\* null and the loop goes on to the next row.
C25_BlankCreatesNothing ==
    /\ [](pc = "rows" =>
            \A t \in DimTables, c \in BlankCells :
                get_or_create_dim(db, t, c) = [db |-> db, id |-> NULL])
    /\ [][ (pc = "rows" /\ i <= Len(df.rows)) =>
             LET row == df.rows[i]
             IN /\ \A ct \in DimColumns :
                       IsBlankCell(row[ct[1]]) =>
                           db'[ct[2]] = db[ct[2]] /\ db'.seq[ct[2]] = db.seq[ct[2]]
                /\ ( /\ IsBlankCell(row.Material)
                     /\ ~IsBlankCell(row.Category) /\ ~IsBlankCell(row.Brand) ) =>
                       /\ pc' = "rows" /\ i' = i + 1
                       /\ row.Id.n \in DOMAIN db'.products
                       /\ db'.products[row.Id.n].material_id = NULL ]_vars

\* the loop has gone past a row with a blank Material whose product had a
\* material before, and has a row still to do
C25_Witness ==
    /\ pc = "rows" /\ i = 2 /\ Len(df.rows) = 2
    /\ df.rows[1].Material = Str(<<" ">>)
    /\ df.rows[1].Id.n \in DOMAIN pre.products
    /\ pre.products[df.rows[1].Id.n].material_id # NULL
    /\ db.products[df.rows[1].Id.n].material_id = NULL
    /\ db.materials = pre.materials

----------------------------------------------------------------------------
(* Passes over sheets whose rows differ in the Active cell. *)

ActiveCells ==
    {NaN, Num(0), Num(1),
     Str(<<"1">>), Str(<<"T", "r", "u", "e">>), Str(<<" ", "y", " ">>),
     Str(<<"Y", "E", "S">>),
     Str(<<"0">>), Str(<<"F", "a", "l", "s", "e">>), Str(<<"n", "o">>), Str(<<"N">>),
     Str(<<"o", "n">>), Str(<<"o", "k">>)}

ActiveRows == {[BaseRow EXCEPT !.Active = a] : a \in ActiveCells}

ActiveSheets == {Sheet(rows) : rows \in SeqsUpTo(ActiveRows, MaxRows)}

NextActive ==
    \/ \E sh \in ActiveSheets, pm \in BOOLEAN : OneShot(sh, pm, 1, MaxPasses)
    \/ ProcessRow
    \/ FinishRows
    \/ Return

SpecActive == Init /\ [][NextActive]_vars

NegativeTokens == {<<"0">>, <<"f", "a", "l", "s", "e">>, <<"n", "o">>, <<"n">>}

\* C26: the is_active a row stores is 1 when its Active cell is unset or a
\* string that is, trimmed and in lower case, one of "1", "true", "yes", "y";
\* it is 0 for a string only when that string is a negative token, so a string
\* that is neither stores 1.
C26_ActiveCoercion ==
    [][ (pc = "rows" /\ i <= Len(df.rows) /\ pc' = "rows") =>
          LET a == df.rows[i].Active
              stored == db'.products[df.rows[i].Id.n].is_active
          IN /\ ~notna(a) => stored = 1
             /\ a.k = "str" =>
                   stored = IF lower(strip(a.s)) \in NegativeTokens THEN 0 ELSE 1 ]_vars

----------------------------------------------------------------------------
(* Passes over sheets whose rows differ in how the Tags cell is written. *)

ParseExprs == {
    Str(<<"a", ";", "b", ",", "c">>),
    Str(<<"b", ",", ",", " ", "a", " ">>),
    Str(<<"a", ";", " ", "a", ";">>),
    Str(<<"c">>),
    Str(<<",", " ">>),
    NaN }

ParseRows == {[BaseRow EXCEPT !.Tags = e] : e \in ParseExprs}

ParseSheets == {Sheet(rows) : rows \in SeqsUpTo(ParseRows, MaxRows)}

NextParse ==
    \/ \E sh \in ParseSheets, pm \in BOOLEAN : OneShot(sh, pm, 1, MaxPasses)
    \/ ProcessRow
    \/ FinishRows
    \/ Return

SpecParse == Init /\ [][NextParse]_vars

\* the separator of a tag expression: ";" if it has one, "," otherwise
Separator(s) == IF \E k \in 1..Len(s) : s[k] = ";" THEN ";" ELSE ","

\* the names a tag expression lists: each stretch of the string from its start
\* or a separator to the next separator or its end, trimmed, the empty ones
\* left out
TagNames(c) ==
    IF c.k # "str" THEN {}
    ELSE LET s == c.s
             sep == Separator(s)
             stretches ==
                 {<<a, b>> \in (1..(Len(s) + 1)) \X (0..Len(s)) :
                     /\ b >= a - 1
                     /\ a = 1 \/ s[a - 1] = sep
                     /\ b = Len(s) \/ s[b + 1] = sep
                     /\ \A k \in a..b : s[k] # sep}
         IN {strip(SubSeq(s, ab[1], ab[2])) : ab \in stretches} \ {<<>>}

\* C27: when an iteration of the loop has completed, the product of its row
\* is linked to one tag for each distinct name its Tags cell lists -- the cell
\* split on ";" if it has one and on "," otherwise, each part trimmed, the
\* empty parts dropped -- and to no other tag; a cell that lists no name, or an
\* absent one, leaves the product without links.
C27_TagSetComputation ==
    (pc = "rows" /\ i > 1) =>
        LET names == TagNames(TagsValue(LastRow))
            links == LinkedTagIds(db, LastRow.Id.n)
        IN /\ names \subseteq {r.name : r \in db.tags}
           /\ links = TagIdsOf(db, names)
           /\ Cardinality(links) = Cardinality(names)

\* the product was linked to c alone when the pass began; its row reads
\* "a;b,c", which lists a and "b,c", and these two are its links now
C27_Witness ==
    /\ pc = "rows" /\ i > 1
    /\ LastRow.Tags = Str(<<"a", ";", "b", ",", "c">>)
    /\ LinkedTagIds(pre, 1) = TagIdsOf(pre, {<<"c">>})
    /\ Cardinality(LinkedTagIds(pre, 1)) = 1
    /\ LinkedTagIds(db, 1) = TagIdsOf(db, {<<"a">>, <<"b", ",", "c">>})
    /\ Cardinality(LinkedTagIds(db, 1)) = 2

----------------------------------------------------------------------------
(* Timestamps. *)

\* C28: no step changes the created_at of a product that is in the store, and
\* a product the step adds has the time of the step as its created_at; the
\* upsert of a row sets the updated_at of its product to the time of the step,
\* and so does the purge step for every product it deactivates.
C28_Timestamps ==
    [][ /\ \A p \in DOMAIN db'.products :
              db'.products[p].created_at =
                  IF p \in DOMAIN db.products THEN db.products[p].created_at ELSE now
        /\ (pc = "rows" /\ i <= Len(df.rows) /\ pc' = "rows") =>
              db'.products[df.rows[i].Id.n].updated_at = now
        /\ (pc = "rows" /\ pc' = "done" /\ purge) =>
              \A p \in DOMAIN db.products \ seen :
                  db'.products[p].updated_at = now ]_vars

\* a product created by one pass, written again by the next and deactivated by
\* the purge step of a third has the time of the first as created_at and the
\* time of the third as updated_at
C28_Witness ==
    /\ pc = "done" /\ purge
    /\ \E p \in DOMAIN pre.products \ seen :
          /\ pre.products[p].created_at < pre.products[p].updated_at
          /\ pre.products[p].updated_at < now
          /\ db.products[p].created_at = pre.products[p].created_at
          /\ db.products[p].updated_at = now
          /\ db.products[p].is_active = 0

----------------------------------------------------------------------------
(* What the purge step writes. *)

\* a product row without the two columns the purge UPDATE sets
Unpurged(r) == [r EXCEPT !.is_active = 0, !.updated_at = 0]

\* C29: the purge step leaves the inventory rows, the rating rows, the tag
\* links, the dimension tables, the tag table and their sequences as they are,
\* adds and removes no product, and changes no column of a product but
\* is_active and updated_at.
C29_PurgeTouchesTwoColumns ==
    [][ (pc = "rows" /\ pc' = "done") =>
          /\ db'.inventory = db.inventory
          /\ db'.product_ratings = db.product_ratings
          /\ db'.product_tags = db.product_tags
          /\ \A t \in DimTables \cup {"tags"} : db'[t] = db[t] /\ db'.seq[t] = db.seq[t]
          /\ DOMAIN db'.products = DOMAIN db.products
          /\ \A p \in DOMAIN db.products :
                Unpurged(db'.products[p]) = Unpurged(db.products[p]) ]_vars

\* the purge step has deactivated a product that has an inventory row, a
\* rating row and a tag link
C29_Witness ==
    /\ pc = "done" /\ purge
    /\ \E p \in DOMAIN db.products \ seen :
          /\ pre.products[p].is_active = 1 /\ db.products[p].is_active = 0
          /\ db.products[p].updated_at = now
          /\ p \in DOMAIN db.inventory /\ p \in DOMAIN db.product_ratings
          /\ \E l \in db.product_tags : l[1] = p

----------------------------------------------------------------------------
(* Referential integrity. *)

Ids(T) == {r.id : r \in T}

\* C30: in every state the committed store has a product and a tag for every
\* link, a product for every inventory row and every rating row, these rows
\* keyed by the product so that a product has at most one of each, and a row
\* of the dimension table for every category_id, brand_id and material_id that
\* is not null.
C30_ReferentialIntegrity ==
    /\ \A l \in db.product_tags : l[1] \in DOMAIN db.products /\ l[2] \in Ids(db.tags)
    /\ DOMAIN db.inventory \subseteq DOMAIN db.products
    /\ DOMAIN db.product_ratings \subseteq DOMAIN db.products
    /\ \A p \in DOMAIN db.products :
          /\ db.products[p].category_id # NULL => db.products[p].category_id \in Ids(db.categories)
          /\ db.products[p].brand_id # NULL => db.products[p].brand_id \in Ids(db.brands)
          /\ db.products[p].material_id # NULL => db.products[p].material_id \in Ids(db.materials)

\* a pass has failed on a row after the commit of its product, which has no
\* inventory row yet, next to a product with a category, links, inventory and
\* rating
C30_Witness ==
    /\ pc = "failed"
    /\ \E p \in DOMAIN db.products : p \notin DOMAIN db.inventory
    /\ \E p \in DOMAIN db.products :
          /\ db.products[p].category_id # NULL
          /\ p \in DOMAIN db.inventory /\ p \in DOMAIN db.product_ratings
          /\ \E l \in db.product_tags : l[1] = p

----------------------------------------------------------------------------
(* Passes over sheets whose rows lack a Category or a Brand. *)

RequiredDimRows ==
    {[BaseRow EXCEPT !.Id = Num(p), !.Category = cb[1], !.Brand = cb[2],
                     !.Rating = Num(4), !.Tags = Str(<<"a">>)] :
        p \in {1, 2},
        cb \in {<<Str(<<"S">>), Str(<<"B">>)>>,
                <<NaN, Str(<<"B">>)>>,
                <<Str(<<" ">>), Str(<<"B">>)>>,
                <<Str(<<"S">>), NaN>>,
                <<Str(<<"T">>), Str(<<" ">>)>>}}

\* Category is an optional column: a sheet may come without it
RequiredDimSheets ==
    {[ext |-> Xlsx, columns |-> cols, rows |-> rows] :
        cols \in {AllCols, AllCols \ {Hdr.Category}},
        rows \in SeqsUpTo(RequiredDimRows, MaxRows)}

NextRequiredDim ==
    \/ \E sh \in RequiredDimSheets, pm \in BOOLEAN : OneShot(sh, pm, 1, MaxPasses)
    \/ ProcessRow
    \/ FinishRows
    \/ Return

SpecRequiredDim == Init /\ [][NextRequiredDim]_vars

\* row k of the sheet has no name in the dimension column c: the sheet lacks
\* the column, or the cell is empty or blank
LacksDim(k, c) == Hdr[c] \notin df.columns \/ IsBlankCell(df.rows[k][c])

\* the product, inventory and rating tables and the links
ProductTables(d) == [products |-> d.products, inventory |-> d.inventory,
                     product_ratings |-> d.product_ratings,
                     product_tags |-> d.product_tags]

\* C31: the loop body on a row without a Category or without a Brand raises
\* and leaves the product, inventory and rating tables and the links as they
\* were, so nothing is written for the row; and once the loop has raised, the
\* pass writes nothing more: it ends with the store as the failing row left
\* it, no later row applied and no purge.
C31_RequiredDimAbort ==
    [][ /\ ( /\ pc = "rows" /\ i <= Len(df.rows)
             /\ (LacksDim(i, "Category") \/ LacksDim(i, "Brand")) ) =>
               /\ pc' = "failed" /\ i' = i /\ seen' = seen
               /\ ProductTables(db') = ProductTables(db)
        /\ pc = "failed" => (pc' = "idle" /\ db' = db) ]_vars

\* the loop has raised at the first of two rows, which has no Brand and whose
\* product the store holds from an earlier pass; the product of the second
\* row, which names both, is not in the store
C31_Witness ==
    /\ pc = "failed" /\ i = 1 /\ Len(df.rows) = 2
    /\ LacksDim(1, "Brand") /\ ~LacksDim(1, "Category")
    /\ ~LacksDim(2, "Brand") /\ ~LacksDim(2, "Category")
    /\ df.rows[1].Id.n \in DOMAIN pre.products
    /\ df.rows[2].Id.n \notin DOMAIN db.products
    /\ ProductTables(db) = ProductTables(pre)

----------------------------------------------------------------------------
(* The frame of sync_tags. *)

\* the links of the products other than p
OtherLinks(d, p) == {l \in d.product_tags : l[1] # p}

\* C32: sync_tags called for a stored product p with any tag expression, on
\* the store of any state of a pass, leaves the links of every other product
\* and every row of the tags table in place; and so does the loop body, for
\* the product of its row.
C32_TagSyncLocal ==
    /\ [](pc = "rows" =>
            \A p \in DOMAIN db.products, e \in TagExprs \cup ParseExprs :
                LET d1 == sync_tags(db, p, e)
                IN /\ OtherLinks(d1, p) = OtherLinks(db, p)
                   /\ db.tags \subseteq d1.tags)
    /\ [][ (pc = "rows" /\ i <= Len(df.rows)) =>
             /\ OtherLinks(db', df.rows[i].Id.n) = OtherLinks(db, df.rows[i].Id.n)
             /\ db.tags \subseteq db'.tags ]_vars

\* the loop has reconciled the links of product 1, removing one, while
\* product 2 keeps a link to a tag that product 1 does not have
C32_Witness ==
    /\ pc = "rows" /\ i = 2
    /\ df.rows[1].Id.n = 1
    /\ LinkedTagIds(pre, 1) \ LinkedTagIds(db, 1) # {}
    /\ LinkedTagIds(db, 2) \ LinkedTagIds(db, 1) # {}
    /\ LinkedTagIds(db, 2) = LinkedTagIds(pre, 2)

====
